---- MODULE Spec2Model ----
(***************************************************************************)
(* A model of Chess_Bot/ChessEngine.py: the GameState (board, side to move *)
(* and move log), the Move value object, make_move / undo_move and the     *)
(* per-piece move generators; and of the event loop of Chess_Bot/ChessMain  *)
(* that drives them.                                                       *)
(*                                                                         *)
(* The board is the 8x8 numpy array of two-character strings.  Python      *)
(* indexing is modelled as Python does it: an index in -8..-1 wraps to the *)
(* other end of the axis, an index above 7 raises IndexError.              *)
(***************************************************************************)
EXTENDS Integers, Sequences, FiniteSets, TLC

VARIABLES board, whiteToMove, moveLog, lastOp, snaps, probe, moves,
          valid_moves, move_made, running, sq_selected, player_clicks,
          location, pending

\* The locals of main(): the cached move list, the flags, the selection, and
\* for the frame in progress the mouse position and the number of events of
\* its batch not yet handled.
mainVars ==
    <<valid_moves, move_made, running, sq_selected, player_clicks, location, pending>>

vars == <<board, whiteToMove, moveLog, lastOp, snaps, probe, moves, mainVars>>

\* ------------------------------------------------------------------ bounds

\* Longest move log explored from the initial position.
MaxPly == 3

\* ------------------------------------------------------------- the board

\* The board is 8 x 8 (np.full((8, 8), ...)).
DIMENSION == 8

Rows == 0 .. (DIMENSION - 1)

WhitePieces == {"wp", "wR", "wN", "wB", "wQ", "wK"}

BlackPieces == {"bp", "bR", "bN", "bB", "bQ", "bK"}

Pieces == WhitePieces \cup BlackPieces \cup {"--"}

\* piece[0]: the colour character of a square's string.
Color(piece) ==
    IF piece \in WhitePieces THEN "w"
    ELSE IF piece \in BlackPieces THEN "b"
    ELSE "-"

\* piece[1]: the kind character of a square's string.
Kind(piece) ==
    CASE piece \in {"wp", "bp"} -> "p"
      [] piece \in {"wR", "bR"} -> "R"
      [] piece \in {"wN", "bN"} -> "N"
      [] piece \in {"wB", "bB"} -> "B"
      [] piece \in {"wQ", "bQ"} -> "Q"
      [] piece \in {"wK", "bK"} -> "K"
      [] OTHER -> "-"

\* Python's index rule on an axis of length 8: -8..-1 count from the end.
PyIdx(i) == IF i < 0 THEN i + DIMENSION ELSE i

\* Whether board[i] succeeds (no IndexError).
IndexOK(i) == i >= -DIMENSION /\ i <= DIMENSION - 1

\* The board is held as a tuple of 8 rows, each a tuple of 8 squares: row r,
\* column c of the array is element c + 1 of element r + 1.
\* board[r][c]
At(b, r, c) == b[PyIdx(r) + 1][PyIdx(c) + 1]

\* board[r][c] = piece
SetAt(b, r, c, piece) ==
    [b EXCEPT ![PyIdx(r) + 1] = [@ EXCEPT ![PyIdx(c) + 1] = piece]]

\* GameState.__init__: the standard initial position.
InitBoard ==
    << <<"bR", "bN", "bB", "bQ", "bK", "bB", "bN", "bR">>,
       <<"bp", "bp", "bp", "bp", "bp", "bp", "bp", "bp">>,
       <<"--", "--", "--", "--", "--", "--", "--", "--">>,
       <<"--", "--", "--", "--", "--", "--", "--", "--">>,
       <<"--", "--", "--", "--", "--", "--", "--", "--">>,
       <<"--", "--", "--", "--", "--", "--", "--", "--">>,
       <<"wp", "wp", "wp", "wp", "wp", "wp", "wp", "wp">>,
       <<"wR", "wN", "wB", "wQ", "wK", "wB", "wN", "wR">> >>

\* ---------------------------------------------------------------- Move

\* Move.__init__ with the weight 100 on both start coordinates: the key no
\* longer separates start_row from start_col.
MoveCollidingID(start_sq, end_sq, b) ==
    [start_row |-> start_sq[1],
     start_col |-> start_sq[2],
     end_row |-> end_sq[1],
     end_col |-> end_sq[2],
     piece_moved |-> At(b, start_sq[1], start_sq[2]),
     piece_captured |-> At(b, end_sq[1], end_sq[2]),
     move_ID |-> start_sq[1] * 100 + start_sq[2] * 100 + end_sq[1] * 10 + end_sq[2]]

\* Move.__init__(start_sq, end_sq, board): the pieces are read from the board
\* at construction time.
Move(start_sq, end_sq, b) ==
    [start_row |-> start_sq[1],
     start_col |-> start_sq[2],
     end_row |-> end_sq[1],
     end_col |-> end_sq[2],
     piece_moved |-> At(b, start_sq[1], start_sq[2]),
     piece_captured |-> At(b, end_sq[1], end_sq[2]),
     move_ID |-> start_sq[1] * 1000 + start_sq[2] * 100 + end_sq[1] * 10 + end_sq[2]]

\* Move.__eq__
MoveEq(m1, m2) == m1.move_ID = m2.move_ID

\* ------------------------------------------------------- the generators
\* Each generator is modelled by the list it appends (in the code's order) and
\* by the condition under which it raises IndexError instead of returning.

NoMoves == << >>

\* moves.append(Move((r, c), (er, ec), self.board))
Appended(b, r, c, er, ec) == <<Move(<<r, c>>, <<er, ec>>, b)>>

\* get_pawn_moves, black branch: self.board[r+1] with r = 7 raises IndexError.
\* The white branch never raises: r-1 = -1 wraps to row 7.
PawnRaises(b, wtm, r, c) == ~wtm /\ ~IndexOK(r + 1)

\* get_pawn_moves with the double push tested beside the single push instead
\* of inside it: a pawn on its starting rank jumps over the square in front.
PawnMovesJumps(b, wtm, r, c) ==
    IF wtm
    THEN (IF At(b, r - 1, c) = "--" THEN Appended(b, r, c, r - 1, c) ELSE NoMoves)
         \o (IF r = 6 /\ At(b, r - 2, c) = "--"
             THEN Appended(b, r, c, r - 2, c) ELSE NoMoves)
         \o (IF c - 1 >= 0
             THEN (IF Color(At(b, r - 1, c - 1)) = "b"
                   THEN Appended(b, r, c, r - 1, c - 1) ELSE NoMoves)
             ELSE NoMoves)
         \o (IF c + 1 <= 7
             THEN (IF Color(At(b, r - 1, c + 1)) = "b"
                   THEN Appended(b, r, c, r - 1, c + 1) ELSE NoMoves)
             ELSE NoMoves)
    ELSE IF ~IndexOK(r + 1) THEN NoMoves
    ELSE (IF At(b, r + 1, c) = "--" THEN Appended(b, r, c, r + 1, c) ELSE NoMoves)
         \o (IF r = 1 /\ At(b, r + 2, c) = "--"
             THEN Appended(b, r, c, r + 2, c) ELSE NoMoves)
         \o (IF c - 1 >= 0
             THEN (IF Color(At(b, r + 1, c - 1)) = "w"
                   THEN Appended(b, r, c, r + 1, c - 1) ELSE NoMoves)
             ELSE NoMoves)
         \o (IF c + 1 <= 7
             THEN (IF Color(At(b, r + 1, c + 1)) = "w"
                   THEN Appended(b, r, c, r + 1, c + 1) ELSE NoMoves)
             ELSE NoMoves)

PawnMoves(b, wtm, r, c) ==
    IF wtm
    THEN (IF At(b, r - 1, c) = "--"
          THEN Appended(b, r, c, r - 1, c)
               \o (IF r = 6 /\ At(b, r - 2, c) = "--"
                   THEN Appended(b, r, c, r - 2, c) ELSE NoMoves)
          ELSE NoMoves)
         \o (IF c - 1 >= 0
             THEN (IF Color(At(b, r - 1, c - 1)) = "b"
                   THEN Appended(b, r, c, r - 1, c - 1) ELSE NoMoves)
             ELSE NoMoves)
         \o (IF c + 1 <= 7
             THEN (IF Color(At(b, r - 1, c + 1)) = "b"
                   THEN Appended(b, r, c, r - 1, c + 1) ELSE NoMoves)
             ELSE NoMoves)
    ELSE IF ~IndexOK(r + 1) THEN NoMoves
    ELSE (IF At(b, r + 1, c) = "--"
          THEN Appended(b, r, c, r + 1, c)
               \o (IF r = 1 /\ At(b, r + 2, c) = "--"
                   THEN Appended(b, r, c, r + 2, c) ELSE NoMoves)
          ELSE NoMoves)
         \o (IF c - 1 >= 0
             THEN (IF Color(At(b, r + 1, c - 1)) = "w"
                   THEN Appended(b, r, c, r + 1, c - 1) ELSE NoMoves)
             ELSE NoMoves)
         \o (IF c + 1 <= 7
             THEN (IF Color(At(b, r + 1, c + 1)) = "w"
                   THEN Appended(b, r, c, r + 1, c + 1) ELSE NoMoves)
             ELSE NoMoves)

get_pawn_moves(b, wtm, r, c) ==
    IF PawnRaises(b, wtm, r, c)
    THEN [raised |-> TRUE, moves |-> NoMoves]
    ELSE [raised |-> FALSE, moves |-> PawnMoves(b, wtm, r, c)]

\* One for-loop of get_rook_moves: the squares (r + dr*i, c + dc*i), i = 1, 2, ...
\* up to the board edge.  An empty square is appended; a non-empty square is
\* appended when it holds an enemy piece, and the loop breaks only when it
\* holds a piece of the rook's own colour.
RECURSIVE RookRay(_, _, _, _, _, _, _, _)
RookRay(b, r, c, dr, dc, i, enemy, own) ==
    LET er == r + dr * i
        ec == c + dc * i
    IN  IF ~(er \in Rows /\ ec \in Rows) THEN NoMoves
        ELSE LET p == At(b, er, ec)
                 here == (IF p = "--" THEN Appended(b, r, c, er, ec) ELSE NoMoves)
                         \o (IF p # "--" /\ Color(p) = enemy
                             THEN Appended(b, r, c, er, ec) ELSE NoMoves)
             IN  IF p # "--" /\ Color(p) = own
                 THEN here
                 ELSE here \o RookRay(b, r, c, dr, dc, i + 1, enemy, own)

RookMoves(b, wtm, r, c) ==
    IF wtm
    THEN (IF r - 1 >= 0 THEN RookRay(b, r, c, -1, 0, 1, "b", "w") ELSE NoMoves)
         \o (IF c - 1 >= 0 THEN RookRay(b, r, c, 0, -1, 1, "b", "w") ELSE NoMoves)
         \o (IF c + 1 <= 7 THEN RookRay(b, r, c, 0, 1, 1, "b", "w") ELSE NoMoves)
         \o (IF r + 1 <= 7 THEN RookRay(b, r, c, 1, 0, 1, "b", "w") ELSE NoMoves)
    ELSE (IF r - 1 >= 0 THEN RookRay(b, r, c, -1, 0, 1, "w", "b") ELSE NoMoves)
         \o (IF c - 1 >= 0 THEN RookRay(b, r, c, 0, -1, 1, "w", "b") ELSE NoMoves)
         \o (IF c + 1 <= 7 THEN RookRay(b, r, c, 0, 1, 1, "w", "b") ELSE NoMoves)
         \o (IF r + 1 <= 7 THEN RookRay(b, r, c, 1, 0, 1, "w", "b") ELSE NoMoves)

get_rook_moves(b, wtm, r, c) ==
    [raised |-> FALSE, moves |-> RookMoves(b, wtm, r, c)]

\* One knight offset as the code writes it: the square (tr, tc) is tested twice,
\* once for "--" and once for the enemy colour.
KnightProbe(b, r, c, tr, tc, enemy) ==
    (IF At(b, tr, tc) = "--" THEN Appended(b, r, c, tr, tc) ELSE NoMoves)
    \o (IF Color(At(b, tr, tc)) = enemy THEN Appended(b, r, c, tr, tc) ELSE NoMoves)

\* The black branch for offset (-1, -2) (lines 376-383): the square tested is
\* (r-1, c-2), but the capture appended is Move((r, c), (r+2, c-1)).
BlackKnightOuterUp(b, r, c) ==
    (IF At(b, r - 1, c - 2) = "--" THEN Appended(b, r, c, r - 1, c - 2) ELSE NoMoves)
    \o (IF Color(At(b, r - 1, c - 2)) = "w"
        THEN (IF IndexOK(r + 2) THEN Appended(b, r, c, r + 2, c - 1) ELSE NoMoves)
        ELSE NoMoves)

\* Move((r, c), (r+2, c-1), self.board) reads board[r+2]: IndexError when r+2 > 7.
KnightRaises(b, wtm, r, c) ==
    /\ ~wtm
    /\ c - 2 >= 0
    /\ r - 1 >= 0
    /\ Color(At(b, r - 1, c - 2)) = "w"
    /\ ~IndexOK(r + 2)

KnightMoves(b, wtm, r, c) ==
    IF wtm
    THEN (IF c - 1 >= 0
          THEN (IF r - 2 >= 0 THEN KnightProbe(b, r, c, r - 2, c - 1, "b") ELSE NoMoves)
               \o (IF r + 2 <= 7 THEN KnightProbe(b, r, c, r + 2, c - 1, "b") ELSE NoMoves)
          ELSE NoMoves)
         \o (IF c - 2 >= 0
             THEN (IF r - 1 >= 0 THEN KnightProbe(b, r, c, r - 1, c - 2, "b") ELSE NoMoves)
                  \o (IF r + 1 <= 7 THEN KnightProbe(b, r, c, r + 1, c - 2, "b") ELSE NoMoves)
             ELSE NoMoves)
         \o (IF c + 1 <= 7
             THEN (IF r - 2 >= 0 THEN KnightProbe(b, r, c, r - 2, c + 1, "b") ELSE NoMoves)
                  \o (IF r + 2 <= 7 THEN KnightProbe(b, r, c, r + 2, c + 1, "b") ELSE NoMoves)
             ELSE NoMoves)
         \o (IF c + 2 <= 7
             THEN (IF r - 1 >= 0 THEN KnightProbe(b, r, c, r - 1, c + 2, "b") ELSE NoMoves)
                  \o (IF r + 1 <= 7 THEN KnightProbe(b, r, c, r + 1, c + 2, "b") ELSE NoMoves)
             ELSE NoMoves)
    ELSE (IF c - 1 >= 0
          THEN (IF r - 2 >= 0 THEN KnightProbe(b, r, c, r - 2, c - 1, "w") ELSE NoMoves)
               \o (IF r + 2 <= 7 THEN KnightProbe(b, r, c, r + 2, c - 1, "w") ELSE NoMoves)
          ELSE NoMoves)
         \o (IF c - 2 >= 0
             THEN (IF r - 1 >= 0 THEN BlackKnightOuterUp(b, r, c) ELSE NoMoves)
                  \o (IF r + 1 <= 7 THEN KnightProbe(b, r, c, r + 1, c - 2, "w") ELSE NoMoves)
             ELSE NoMoves)
         \o (IF c + 1 <= 7
             THEN (IF r - 2 >= 0 THEN KnightProbe(b, r, c, r - 2, c + 1, "w") ELSE NoMoves)
                  \o (IF r + 2 <= 7 THEN KnightProbe(b, r, c, r + 2, c + 1, "w") ELSE NoMoves)
             ELSE NoMoves)
         \o (IF c + 2 <= 7
             THEN (IF r - 1 >= 0 THEN KnightProbe(b, r, c, r - 1, c + 2, "w") ELSE NoMoves)
                  \o (IF r + 1 <= 7 THEN KnightProbe(b, r, c, r + 1, c + 2, "w") ELSE NoMoves)
             ELSE NoMoves)

get_knight_moves(b, wtm, r, c) ==
    IF KnightRaises(b, wtm, r, c)
    THEN [raised |-> TRUE, moves |-> NoMoves]
    ELSE [raised |-> FALSE, moves |-> KnightMoves(b, wtm, r, c)]

\* directions = ((-1, -1), (-1, 1), (1, -1), (1, 1))
directions == <<<<-1, -1>>, <<-1, 1>>, <<1, -1>>, <<1, 1>>>>

\* The inner loop of get_bishop_moves without the break after a capture: the
\* ray goes on behind an enemy piece.
RECURSIVE BishopRayThroughEnemy(_, _, _, _, _, _)
BishopRayThroughEnemy(b, r, c, d, i, enemy_color) ==
    IF i > 7 THEN NoMoves
    ELSE LET end_row == r + d[1] * i
             end_col == c + d[2] * i
         IN  IF 0 <= end_row /\ end_row < 8 /\ 0 <= end_col /\ end_col < 8
             THEN LET end_piece == At(b, end_row, end_col)
                  IN  IF end_piece = "--"
                      THEN Appended(b, r, c, end_row, end_col)
                           \o BishopRayThroughEnemy(b, r, c, d, i + 1, enemy_color)
                      ELSE IF Color(end_piece) = enemy_color
                      THEN Appended(b, r, c, end_row, end_col)
                           \o BishopRayThroughEnemy(b, r, c, d, i + 1, enemy_color)
                      ELSE NoMoves
             ELSE NoMoves

\* The inner loop of get_bishop_moves, for i in range(1, 8), from step i on.
RECURSIVE BishopRay(_, _, _, _, _, _)
BishopRay(b, r, c, d, i, enemy_color) ==
    IF i > 7 THEN NoMoves
    ELSE LET end_row == r + d[1] * i
             end_col == c + d[2] * i
         IN  IF 0 <= end_row /\ end_row < 8 /\ 0 <= end_col /\ end_col < 8
             THEN LET end_piece == At(b, end_row, end_col)
                  IN  IF end_piece = "--"
                      THEN Appended(b, r, c, end_row, end_col)
                           \o BishopRay(b, r, c, d, i + 1, enemy_color)
                      ELSE IF Color(end_piece) = enemy_color
                      THEN Appended(b, r, c, end_row, end_col)
                      ELSE NoMoves
             ELSE NoMoves

BishopMoves(b, wtm, r, c) ==
    LET enemy_color == IF wtm THEN "b" ELSE "w"
    IN  BishopRay(b, r, c, directions[1], 1, enemy_color)
        \o BishopRay(b, r, c, directions[2], 1, enemy_color)
        \o BishopRay(b, r, c, directions[3], 1, enemy_color)
        \o BishopRay(b, r, c, directions[4], 1, enemy_color)

get_bishop_moves(b, wtm, r, c) ==
    [raised |-> FALSE, moves |-> BishopMoves(b, wtm, r, c)]

\* get_queen_moves: get_rook_moves, then get_bishop_moves, on the same list.
get_queen_moves(b, wtm, r, c) ==
    [raised |-> FALSE, moves |-> RookMoves(b, wtm, r, c) \o BishopMoves(b, wtm, r, c)]

king_moves ==
    <<<<-1, -1>>, <<-1, 0>>, <<-1, 1>>, <<0, -1>>, <<0, 1>>, <<1, -1>>, <<1, 0>>, <<1, 1>>>>

\* The loop of get_king_moves testing the end square for emptiness instead of
\* for the ally colour: the king cannot capture.
RECURSIVE KingLoopNoCapture(_, _, _, _, _)
KingLoopNoCapture(b, r, c, i, ally_color) ==
    IF i > 8 THEN NoMoves
    ELSE LET end_row == r + king_moves[i][1]
             end_col == c + king_moves[i][2]
         IN  (IF 0 <= end_row /\ end_row < 8 /\ 0 <= end_col /\ end_col < 8
              THEN (IF At(b, end_row, end_col) = "--"
                    THEN Appended(b, r, c, end_row, end_col) ELSE NoMoves)
              ELSE NoMoves)
             \o KingLoopNoCapture(b, r, c, i + 1, ally_color)

\* The loop of get_king_moves, for i in range(8), from offset i on (1-based).
RECURSIVE KingLoop(_, _, _, _, _)
KingLoop(b, r, c, i, ally_color) ==
    IF i > 8 THEN NoMoves
    ELSE LET end_row == r + king_moves[i][1]
             end_col == c + king_moves[i][2]
         IN  (IF 0 <= end_row /\ end_row < 8 /\ 0 <= end_col /\ end_col < 8
              THEN (IF Color(At(b, end_row, end_col)) # ally_color
                    THEN Appended(b, r, c, end_row, end_col) ELSE NoMoves)
              ELSE NoMoves)
             \o KingLoop(b, r, c, i + 1, ally_color)

get_king_moves(b, wtm, r, c) ==
    [raised |-> FALSE, moves |-> KingLoop(b, r, c, 1, IF wtm THEN "w" ELSE "b")]

\* self.move_functions[piece](r, c, moves): a kind outside the table raises
\* KeyError.
move_functions(kind, b, wtm, r, c) ==
    CASE kind = "p" -> get_pawn_moves(b, wtm, r, c)
      [] kind = "R" -> get_rook_moves(b, wtm, r, c)
      [] kind = "N" -> get_knight_moves(b, wtm, r, c)
      [] kind = "B" -> get_bishop_moves(b, wtm, r, c)
      [] kind = "Q" -> get_queen_moves(b, wtm, r, c)
      [] kind = "K" -> get_king_moves(b, wtm, r, c)
      [] OTHER -> [raised |-> TRUE, moves |-> NoMoves]

\* The keys of self.move_functions.
MoveFunctionKeys == {"p", "R", "N", "B", "Q", "K"}

\* Whether the generator for `kind` raises at (r, c): IndexError in the pawn and
\* knight generators, KeyError for a kind outside the table.
GeneratorRaises(kind, b, wtm, r, c) ==
    CASE kind = "p" -> PawnRaises(b, wtm, r, c)
      [] kind = "N" -> KnightRaises(b, wtm, r, c)
      [] kind \in {"R", "B", "Q", "K"} -> FALSE
      [] OTHER -> TRUE

\* ToMove without the test of the side to move: every piece is scanned.
ToMoveAnyColor(b, wtm, r, c) == Color(At(b, r, c)) # "-"

\* if (turn == 'w' and self.whiteToMove) or (turn == 'b' and not self.whiteToMove)
ToMove(b, wtm, r, c) ==
    LET turn == Color(At(b, r, c))
    IN  (turn = "w" /\ wtm) \/ (turn = "b" /\ ~wtm)

\* The body of the double loop of get_all_possible_moves at square (r, c).
ScanSquare(b, wtm, r, c) ==
    IF ToMove(b, wtm, r, c)
    THEN move_functions(Kind(At(b, r, c)), b, wtm, r, c)
    ELSE [raised |-> FALSE, moves |-> NoMoves]

\* for c in range(len(self.board[r])): the moves row r contributes.
ScanRow(b, wtm, r) ==
    ScanSquare(b, wtm, r, 0).moves \o ScanSquare(b, wtm, r, 1).moves
    \o ScanSquare(b, wtm, r, 2).moves \o ScanSquare(b, wtm, r, 3).moves
    \o ScanSquare(b, wtm, r, 4).moves \o ScanSquare(b, wtm, r, 5).moves
    \o ScanSquare(b, wtm, r, 6).moves \o ScanSquare(b, wtm, r, 7).moves

\* The row-major scan of get_all_possible_moves.  An exception in a generator
\* ends the scan: no list is returned.
ScanBoard(b, wtm) ==
    IF \E r \in Rows, c \in Rows :
            ToMove(b, wtm, r, c) /\ GeneratorRaises(Kind(At(b, r, c)), b, wtm, r, c)
    THEN [raised |-> TRUE, moves |-> NoMoves]
    ELSE [raised |-> FALSE,
          moves |-> ScanRow(b, wtm, 0) \o ScanRow(b, wtm, 1) \o ScanRow(b, wtm, 2)
                    \o ScanRow(b, wtm, 3) \o ScanRow(b, wtm, 4) \o ScanRow(b, wtm, 5)
                    \o ScanRow(b, wtm, 6) \o ScanRow(b, wtm, 7)]

get_all_possible_moves(b, wtm) == ScanBoard(b, wtm)

get_valid_moves(b, wtm) == get_all_possible_moves(b, wtm)

\* ------------------------------------------------- make_move / undo_move
\* A game state is the record [board, whiteToMove, moveLog].

\* make_move without line 26: the start square keeps its piece.
make_moveKeepsStart(gs, move) ==
    [board |-> SetAt(gs.board, move.end_row, move.end_col, move.piece_moved),
     moveLog |-> Append(gs.moveLog, move),
     whiteToMove |-> ~gs.whiteToMove]

\* make_move without line 29: the side to move is not flipped.
make_moveNoFlip(gs, move) ==
    [board |-> SetAt(SetAt(gs.board, move.start_row, move.start_col, "--"),
                     move.end_row, move.end_col, move.piece_moved),
     moveLog |-> Append(gs.moveLog, move),
     whiteToMove |-> gs.whiteToMove]

\* make_move writing a one-character marker on the start square.
make_moveShortMarker(gs, move) ==
    [board |-> SetAt(SetAt(gs.board, move.start_row, move.start_col, "-"),
                     move.end_row, move.end_col, move.piece_moved),
     moveLog |-> Append(gs.moveLog, move),
     whiteToMove |-> ~gs.whiteToMove]

make_move(gs, move) ==
    [board |-> SetAt(SetAt(gs.board, move.start_row, move.start_col, "--"),
                     move.end_row, move.end_col, move.piece_moved),
     moveLog |-> Append(gs.moveLog, move),
     whiteToMove |-> ~gs.whiteToMove]

\* undo_move that empties the end square instead of restoring piece_captured.
undo_moveDropsCaptured(gs) ==
    IF Len(gs.moveLog) # 0
    THEN LET move == gs.moveLog[Len(gs.moveLog)]
         IN  [board |-> SetAt(SetAt(gs.board, move.start_row, move.start_col,
                                    move.piece_moved),
                              move.end_row, move.end_col, "--"),
              moveLog |-> SubSeq(gs.moveLog, 1, Len(gs.moveLog) - 1),
              whiteToMove |-> ~gs.whiteToMove]
    ELSE gs

\* undo_move with the turn flip outside the guard: it runs on an empty log too.
undo_moveFlipsAlways(gs) ==
    IF Len(gs.moveLog) # 0
    THEN LET move == gs.moveLog[Len(gs.moveLog)]
         IN  [board |-> SetAt(SetAt(gs.board, move.start_row, move.start_col,
                                    move.piece_moved),
                              move.end_row, move.end_col, move.piece_captured),
              moveLog |-> SubSeq(gs.moveLog, 1, Len(gs.moveLog) - 1),
              whiteToMove |-> ~gs.whiteToMove]
    ELSE [gs EXCEPT !.whiteToMove = ~gs.whiteToMove]

undo_move(gs) ==
    IF Len(gs.moveLog) # 0
    THEN LET move == gs.moveLog[Len(gs.moveLog)]
         IN  [board |-> SetAt(SetAt(gs.board, move.start_row, move.start_col,
                                    move.piece_moved),
                              move.end_row, move.end_col, move.piece_captured),
              moveLog |-> SubSeq(gs.moveLog, 1, Len(gs.moveLog) - 1),
              whiteToMove |-> ~gs.whiteToMove]
    ELSE gs

\* ------------------------------------------------------------ the game

\* The GameState object as a value.
GS == [board |-> board, whiteToMove |-> whiteToMove, moveLog |-> moveLog]

NoProbe == <<-1, -1>>

NoResult == [raised |-> FALSE, moves |-> NoMoves]

\* main() is not running: the GameState is used on its own.
NoMain ==
    /\ valid_moves = NoMoves
    /\ move_made = FALSE
    /\ running = FALSE
    /\ sq_selected = << >>
    /\ player_clicks = << >>
    /\ location = <<0, 0>>
    /\ pending = 0

\* GameState.__init__
Init ==
    /\ board = InitBoard
    /\ whiteToMove = TRUE
    /\ moveLog = << >>
    /\ lastOp = "init"
    /\ snaps = << >>
    /\ probe = NoProbe
    /\ moves = NoResult
    /\ NoMain

\* gs.make_move(m) for a move m of the list get_valid_moves() returned.
\* snaps records the game state each logged move was applied to.
MakeMove ==
    /\ Len(moveLog) < MaxPly
    /\ \E valid \in {get_valid_moves(board, whiteToMove)} :
          /\ ~valid.raised
          /\ \E i \in 1 .. Len(valid.moves) :
                \E next \in {make_move(GS, valid.moves[i])} :
                    /\ board' = next.board
                    /\ whiteToMove' = next.whiteToMove
                    /\ moveLog' = next.moveLog
                    /\ snaps' = Append(snaps, GS)
    /\ lastOp' = "make_move"
    /\ UNCHANGED <<probe, moves, mainVars>>

\* gs.undo_move(), also on an empty log.
UndoMove ==
    /\ \E next \in {undo_move(GS)} :
          /\ board' = next.board
          /\ whiteToMove' = next.whiteToMove
          /\ moveLog' = next.moveLog
          /\ snaps' = SubSeq(snaps, 1, Len(next.moveLog))
    /\ lastOp' = IF Len(moveLog) # 0 THEN "undo_move" ELSE "undo_empty"
    /\ UNCHANGED <<probe, moves, mainVars>>

Next == MakeMove \/ UndoMove

Spec == Init /\ [][Next]_vars

\* ------------------------------------------------- a longer game, narrowed
\* The positions in which a generator fails lie more than MaxPly moves from
\* the initial position.  This specification plays the same game with the
\* players' choice among the generated moves narrowed: White moves only along
\* the a-file (the a-pawn and the rook behind it), Black moves only a knight
\* within the four queenside files.

MaxRaidPly == 7

RaidChoice(m) ==
    IF Color(m.piece_moved) = "w"
    THEN m.start_col = 0 /\ m.end_col = 0
    ELSE Kind(m.piece_moved) = "N" /\ m.start_col <= 3 /\ m.end_col <= 3

\* gs.make_move(m) for a move m of get_valid_moves() that RaidChoice admits.
RaidMove ==
    /\ Len(moveLog) < MaxRaidPly
    /\ \E valid \in {get_valid_moves(board, whiteToMove)} :
          /\ ~valid.raised
          /\ \E i \in 1 .. Len(valid.moves) :
                /\ RaidChoice(valid.moves[i])
                /\ \E next \in {make_move(GS, valid.moves[i])} :
                      /\ board' = next.board
                      /\ whiteToMove' = next.whiteToMove
                      /\ moveLog' = next.moveLog
                      /\ snaps' = Append(snaps, GS)
    /\ lastOp' = "make_move"
    /\ UNCHANGED <<probe, moves, mainVars>>

RaidNext == RaidMove \/ UndoMove

SpecRaid == Init /\ [][RaidNext]_vars

\* A second narrowing, for the positions with a white pawn on row 0: White
\* moves only pawns and rooks within the a- and b-files, Black moves only a
\* knight between g8 and h6.

MaxMarchPly == 12

MarchChoice(m) ==
    IF Color(m.piece_moved) = "w"
    THEN Kind(m.piece_moved) \in {"p", "R"} /\ m.start_col <= 1 /\ m.end_col <= 1
    ELSE Kind(m.piece_moved) = "N" /\ m.start_col >= 6 /\ m.end_col >= 6
         /\ m.start_row <= 2 /\ m.end_row <= 2

\* gs.make_move(m) for a move m of get_valid_moves() that MarchChoice admits.
MarchMove ==
    /\ Len(moveLog) < MaxMarchPly
    /\ \E valid \in {get_valid_moves(board, whiteToMove)} :
          /\ ~valid.raised
          /\ \E i \in 1 .. Len(valid.moves) :
                /\ MarchChoice(valid.moves[i])
                /\ \E next \in {make_move(GS, valid.moves[i])} :
                      /\ board' = next.board
                      /\ whiteToMove' = next.whiteToMove
                      /\ moveLog' = next.moveLog
                      /\ snaps' = Append(snaps, GS)
    /\ lastOp' = "make_move"
    /\ UNCHANGED <<probe, moves, mainVars>>

MarchNext == MarchMove \/ UndoMove

SpecMarch == Init /\ [][MarchNext]_vars

\* ------------------------------------------- one generator on any board
\* The generators are functions of (board, whiteToMove, r, c).  These
\* specifications draw that input: a piece of the side to move on any square,
\* at most one other piece of its own colour and at most one enemy piece on
\* any other squares; the single step calls the piece's generator as
\* get_all_possible_moves does.

Squares == Rows \X Rows

Nowhere == <<-1, -1>>

EmptyBoard ==
    << <<"--", "--", "--", "--", "--", "--", "--", "--">>,
       <<"--", "--", "--", "--", "--", "--", "--", "--">>,
       <<"--", "--", "--", "--", "--", "--", "--", "--">>,
       <<"--", "--", "--", "--", "--", "--", "--", "--">>,
       <<"--", "--", "--", "--", "--", "--", "--", "--">>,
       <<"--", "--", "--", "--", "--", "--", "--", "--">>,
       <<"--", "--", "--", "--", "--", "--", "--", "--">>,
       <<"--", "--", "--", "--", "--", "--", "--", "--">> >>

\* The two-character string of a piece.
PieceOf(color, kind) ==
    CASE color = "w" /\ kind = "p" -> "wp"
      [] color = "w" /\ kind = "R" -> "wR"
      [] color = "w" /\ kind = "N" -> "wN"
      [] color = "w" /\ kind = "B" -> "wB"
      [] color = "w" /\ kind = "Q" -> "wQ"
      [] color = "w" /\ kind = "K" -> "wK"
      [] color = "b" /\ kind = "p" -> "bp"
      [] color = "b" /\ kind = "R" -> "bR"
      [] color = "b" /\ kind = "N" -> "bN"
      [] color = "b" /\ kind = "B" -> "bB"
      [] color = "b" /\ kind = "Q" -> "bQ"
      [] color = "b" /\ kind = "K" -> "bK"

Place(b, sq, piece) ==
    IF sq = Nowhere THEN b ELSE SetAt(b, sq[1], sq[2], piece)

\* The board with the piece under test on sq, a knight of its colour on own
\* and an enemy knight on enemy (each possibly Nowhere).
ProbeBoard(kind, wtm, sq, own, enemy) ==
    LET us == IF wtm THEN "w" ELSE "b"
        them == IF wtm THEN "b" ELSE "w"
    IN  Place(Place(Place(EmptyBoard, own, PieceOf(us, "N")),
                    enemy, PieceOf(them, "N")),
              sq, PieceOf(us, kind))

\* A black pawn never stands on row 0: pawns start on row 1 and only move to
\* higher rows.
InitGen(kind) ==
    /\ \E wtm \in BOOLEAN, sq \in Squares,
          own \in Squares \cup {Nowhere}, enemy \in Squares \cup {Nowhere} :
          /\ own # sq /\ enemy # sq
          /\ own = Nowhere \/ own # enemy
          /\ ~(kind = "p" /\ ~wtm /\ sq[1] = 0)
          /\ whiteToMove = wtm
          /\ probe = sq
          /\ board = ProbeBoard(kind, wtm, sq, own, enemy)
    /\ moveLog = << >>
    /\ lastOp = "init"
    /\ snaps = << >>
    /\ moves = NoResult
    /\ NoMain

\* self.move_functions[piece](r, c, moves) on the probed square, on a fresh
\* list.
Generate ==
    /\ lastOp = "init"
    /\ probe # NoProbe
    /\ moves' = move_functions(Kind(At(board, probe[1], probe[2])), board,
                               whiteToMove, probe[1], probe[2])
    /\ lastOp' = "generate"
    /\ UNCHANGED <<board, whiteToMove, moveLog, snaps, probe, mainVars>>

SpecPawn == InitGen("p") /\ [][Generate]_vars

SpecRook == InitGen("R") /\ [][Generate]_vars

SpecKnight == InitGen("N") /\ [][Generate]_vars

SpecBishop == InitGen("B") /\ [][Generate]_vars

SpecKing == InitGen("K") /\ [][Generate]_vars

\* ------------------------------------------------- one Move on any squares
\* Move.__init__ is a function of (start_sq, end_sq, board).  This
\* specification draws the start square and the board, and its single step
\* constructs the Move to any end square.

InitMove ==
    /\ board \in {InitBoard, EmptyBoard}
    /\ probe \in Squares
    /\ whiteToMove = TRUE
    /\ moveLog = << >>
    /\ lastOp = "init"
    /\ snaps = << >>
    /\ moves = NoResult
    /\ NoMain

\* Move(probe, end_sq, self.board)
Construct ==
    /\ lastOp = "init"
    /\ \E end_sq \in Squares :
          moves' = [raised |-> FALSE, moves |-> <<Move(probe, end_sq, board)>>]
    /\ lastOp' = "construct"
    /\ UNCHANGED <<board, whiteToMove, moveLog, snaps, probe, mainVars>>

SpecMove == InitMove /\ [][Construct]_vars

\* ------------------------------------------------------- the event loop
\* main() of ChessMain.py.  Each pass of `while running` takes the batch of
\* events p.event.get() returns, handles them in order and then, once per
\* frame, refreshes valid_moves if move_made is set.  p.mouse.get_pos() gives
\* the pointer position as of that p.event.get(), so it is one position per
\* frame.  The events of a batch are drawn one by one as they are handled.

\* Longest move log the event loop is followed to, and most events per batch.
MaxMainPly == 2

MaxBatch == 2

HEIGHT == 512

SQ_SIZE == HEIGHT \div DIMENSION

\* The pointer positions drawn: the last pixel of every square of the e-file.
MousePositions ==
    {<<4 * SQ_SIZE + SQ_SIZE - 1, r * SQ_SIZE + SQ_SIZE - 1>> : r \in Rows}

\* main() up to the loop: gs = GameState(), valid_moves = gs.get_valid_moves().
InitMain ==
    /\ board = InitBoard
    /\ whiteToMove = TRUE
    /\ moveLog = << >>
    /\ lastOp = "main"
    /\ snaps = << >>
    /\ probe = NoProbe
    /\ moves = NoResult
    /\ valid_moves = get_valid_moves(InitBoard, TRUE).moves
    /\ move_made = FALSE
    /\ running = TRUE
    /\ sq_selected = << >>
    /\ player_clicks = << >>
    /\ location = <<0, 0>>
    /\ pending = 0

\* The loop is inside `for e in p.event.get()`.
InBatch ==
    lastOp \in {"poll", "quit", "click", "make_move", "key", "undo_move", "undo_empty"}

\* while running: ... p.event.get()
Poll ==
    /\ lastOp \in {"main", "frame"}
    /\ running
    /\ pending' \in 0 .. MaxBatch
    /\ location' \in MousePositions
    /\ lastOp' = "poll"
    /\ UNCHANGED <<board, whiteToMove, moveLog, snaps, probe, moves, valid_moves,
                   move_made, running, sq_selected, player_clicks>>

\* e.type == p.QUIT
Quit ==
    /\ InBatch
    /\ pending > 0
    /\ running' = FALSE
    /\ pending' = pending - 1
    /\ lastOp' = "quit"
    /\ UNCHANGED <<board, whiteToMove, moveLog, snaps, probe, moves, valid_moves,
                   move_made, sq_selected, player_clicks, location>>

\* (row, col) of lines 55-56.
ClickedSquare == <<location[2] \div SQ_SIZE, location[1] \div SQ_SIZE>>

\* move in list: some element of the list equals move (Move.__eq__).
MoveIn(move, list) == \E i \in 1 .. Len(list) : MoveEq(list[i], move)

\* e.type == p.MOUSEBUTTONDOWN
MouseButtonDown ==
    /\ InBatch
    /\ pending > 0
    /\ \E sel \in {IF sq_selected = ClickedSquare THEN << >> ELSE ClickedSquare},
          clicks \in {IF sq_selected = ClickedSquare THEN << >>
                      ELSE Append(player_clicks, ClickedSquare)} :
          IF Len(clicks) = 2
          THEN \E move \in {Move(clicks[1], clicks[2], board)} :
                  IF MoveIn(move, valid_moves)
                  THEN /\ Len(moveLog) < MaxMainPly
                       /\ \E next \in {make_move(GS, move)} :
                             /\ board' = next.board
                             /\ whiteToMove' = next.whiteToMove
                             /\ moveLog' = next.moveLog
                             /\ snaps' = Append(snaps, GS)
                       /\ move_made' = TRUE
                       /\ sq_selected' = << >>
                       /\ player_clicks' = << >>
                       /\ lastOp' = "make_move"
                  ELSE /\ sq_selected' = sel
                       /\ player_clicks' = <<sel>>
                       /\ lastOp' = "click"
                       /\ UNCHANGED <<board, whiteToMove, moveLog, snaps, move_made>>
          ELSE /\ sq_selected' = sel
               /\ player_clicks' = clicks
               /\ lastOp' = "click"
               /\ UNCHANGED <<board, whiteToMove, moveLog, snaps, move_made>>
    /\ pending' = pending - 1
    /\ UNCHANGED <<probe, moves, valid_moves, running, location>>

\* e.type == p.KEYDOWN: the z key undoes the last move, any other key does
\* nothing.
KeyDown ==
    /\ InBatch
    /\ pending > 0
    /\ \E key \in {"K_z", "K_other"} :
          IF key = "K_z"
          THEN /\ \E next \in {undo_move(GS)} :
                     /\ board' = next.board
                     /\ whiteToMove' = next.whiteToMove
                     /\ moveLog' = next.moveLog
                     /\ snaps' = SubSeq(snaps, 1, Len(next.moveLog))
               /\ move_made' = TRUE
               /\ lastOp' = IF Len(moveLog) # 0 THEN "undo_move" ELSE "undo_empty"
          ELSE /\ lastOp' = "key"
               /\ UNCHANGED <<board, whiteToMove, moveLog, snaps, move_made>>
    /\ pending' = pending - 1
    /\ UNCHANGED <<probe, moves, valid_moves, running, sq_selected, player_clicks,
                   location>>

\* After the for loop: if move_made, valid_moves = gs.get_valid_moves() and
\* move_made = False; an exception in get_valid_moves() ends the program.
\* The loop is left when running is False.
FrameEnd ==
    /\ InBatch
    /\ pending = 0
    /\ IF move_made
       THEN \E valid \in {get_valid_moves(board, whiteToMove)} :
               /\ valid_moves' = valid.moves
               /\ running' = (running /\ ~valid.raised)
       ELSE UNCHANGED <<valid_moves, running>>
    /\ move_made' = FALSE
    /\ lastOp' = IF running' THEN "frame" ELSE "exit"
    /\ UNCHANGED <<board, whiteToMove, moveLog, snaps, probe, moves, sq_selected,
                   player_clicks, location, pending>>

MainNext == Poll \/ Quit \/ MouseButtonDown \/ KeyDown \/ FrameEnd

SpecMain == InitMain /\ [][MainNext]_vars

\* ------------------------------------------------ properties of the game

\* undo_move() applied k times.
RECURSIVE UndoTimes(_, _)
UndoTimes(gs, k) == IF k = 0 THEN gs ELSE UndoTimes(undo_move(gs), k - 1)

\* The last entry of a non-empty log.
Last(log) == log[Len(log)]

\* C1: undoing the last k logged moves, for every k up to the length of the
\* log, gives back exactly the board, the side to move and the log that
\* existed before the first of those k moves was made.
C1_UndoRestoresSnapshot ==
    /\ Len(snaps) = Len(moveLog)
    /\ \A k \in 1 .. Len(moveLog) :
          UndoTimes(GS, k) = snaps[Len(moveLog) - k + 1]

\* A log of three moves whose last move captured a piece: undoing puts the
\* captured piece back.
C1_Witness ==
    /\ Len(moveLog) = 3
    /\ Last(moveLog).piece_captured # "--"
    /\ lastOp = "make_move"

\* C4: make_move(m) empties m's start square, puts m's moved piece on m's end
\* square, appends m to the log and flips the side to move; the other 62
\* squares and the earlier log entries are unchanged.  The squares are the
\* ones m's coordinates index in the array.
C4_MakeMoveFrame ==
    [][lastOp' = "make_move" =>
        /\ Len(moveLog') = Len(moveLog) + 1
        /\ SubSeq(moveLog', 1, Len(moveLog)) = moveLog
        /\ whiteToMove' = ~whiteToMove
        /\ \E m \in {Last(moveLog')} :
              \E start \in {<<PyIdx(m.start_row), PyIdx(m.start_col)>>},
                 end \in {<<PyIdx(m.end_row), PyIdx(m.end_col)>>} :
                  /\ start \in Squares /\ end \in Squares /\ start # end
                  /\ m.piece_moved = At(board, start[1], start[2])
                  /\ \A r \in Rows, c \in Rows :
                        At(board', r, c) =
                            IF <<r, c>> = end THEN m.piece_moved
                            ELSE IF <<r, c>> = start THEN "--"
                            ELSE At(board, r, c)]_vars

\* A capture has just been made on top of two earlier moves.
C4_Witness ==
    /\ lastOp = "make_move"
    /\ Len(moveLog) >= 2
    /\ Color(Last(moveLog).piece_captured) = "b"

\* C5: it is White's turn exactly when the move log has even length.
C5_TurnParity == whiteToMove <=> (Len(moveLog) % 2 = 0)

\* A move has been undone and Black is to move again.
C5_Witness ==
    /\ lastOp = "undo_move"
    /\ Len(moveLog) = 1
    /\ ~whiteToMove

\* C6: undo_move() on an empty log changes neither the board nor the side to
\* move nor the log.
C6_EmptyUndoNoOp ==
    [][(lastOp' \in {"undo_move", "undo_empty"} /\ moveLog = << >>) =>
        /\ board' = board
        /\ whiteToMove' = whiteToMove
        /\ moveLog' = << >>]_vars

\* undo_move() has just been called on an empty log.
C6_Witness ==
    /\ lastOp = "undo_empty"
    /\ moveLog = << >>

IsSinglePush(m) ==
    Kind(m.piece_moved) = "p" /\ m.end_col = m.start_col
    /\ (m.end_row - m.start_row) \in {-1, 1}

IsDoublePush(m) ==
    Kind(m.piece_moved) = "p" /\ m.end_col = m.start_col
    /\ (m.end_row - m.start_row) \in {-2, 2}

IsKnightMove(m) == Kind(m.piece_moved) = "N"

SinglePushes(ms) == {i \in 1 .. Len(ms) : IsSinglePush(ms[i])}

DoublePushes(ms) == {i \in 1 .. Len(ms) : IsDoublePush(ms[i])}

KnightJumps(ms) == {i \in 1 .. Len(ms) : IsKnightMove(ms[i])}

\* C7: the initial position gives White exactly 20 moves (8 single pawn
\* pushes, 8 double pawn pushes, 4 knight moves), and after any first move
\* Black has exactly 20 moves.
C7_TwentyMoves ==
    /\ moveLog = << >> =>
          \A valid \in {get_valid_moves(board, whiteToMove)} :
              /\ ~valid.raised
              /\ Len(valid.moves) = 20
              /\ Cardinality(SinglePushes(valid.moves)) = 8
              /\ Cardinality(DoublePushes(valid.moves)) = 8
              /\ Cardinality(KnightJumps(valid.moves)) = 4
    /\ Len(moveLog) = 1 =>
          \A valid \in {get_valid_moves(board, whiteToMove)} :
              /\ ~valid.raised
              /\ ~whiteToMove
              /\ Len(valid.moves) = 20
              /\ \A i \in 1 .. Len(valid.moves) :
                    Color(valid.moves[i].piece_moved) = "b"

\* Black is to move after White's first move.
C7_Witness ==
    /\ Len(moveLog) = 1
    /\ lastOp = "make_move"
    /\ board # InitBoard

\* The occupied squares of the board.
Occupied == {sq \in Squares : At(board, sq[1], sq[2]) # "--"}

\* C12: the board is 8 x 8 and every square holds the empty marker "--" or a
\* two-character piece string of colour w or b and one of the six kinds, so
\* the dispatch on a piece's kind always finds a key of move_functions.
C12_KnownPieces ==
    /\ Len(board) = DIMENSION
    /\ \A r \in Rows :
          /\ Len(board[r + 1]) = DIMENSION
          /\ \A c \in Rows :
                \E piece \in {At(board, r, c)} :
                    /\ piece \in Pieces
                    /\ piece = "--" \/ Color(piece) \in {"w", "b"}
                    /\ piece # "--" => Kind(piece) \in MoveFunctionKeys

\* A piece has been captured: 31 pieces are left and Black is to move.
C12_Witness ==
    /\ Cardinality(Occupied) = 31
    /\ ~whiteToMove
    /\ Len(moveLog) = MaxPly

\* C14: in every state reached from the initial position, get_valid_moves()
\* runs to completion and returns a list: no generator raises.
C14_ValidMovesReturns == ~get_valid_moves(board, whiteToMove).raised

\* C15: in every state reached from the initial position, every move that
\* get_valid_moves() returns has its start and end row and column in 0..7.
C15_MovesOnBoard ==
    \A valid \in {get_valid_moves(board, whiteToMove)} :
        ~valid.raised =>
            \A i \in 1 .. Len(valid.moves) :
                /\ <<valid.moves[i].start_row, valid.moves[i].start_col>> \in Squares
                /\ <<valid.moves[i].end_row, valid.moves[i].end_col>> \in Squares

\* ------------------------------------------ properties of the generators

\* The generator has been called on the probed square.
GenDone == lastOp = "generate"

\* On every probed board, making any generated move and undoing it gives the
\* game state back; this covers the moves the bounded game does not reach (a
\* pawn's move from row 0 to row -1, the black knight's move of line 383).
RoundTripOnProbe ==
    GenDone =>
        \A i \in 1 .. Len(moves.moves) :
            undo_move(make_move(GS, moves.moves[i])) = GS

Us == IF whiteToMove THEN "w" ELSE "b"

Them == IF whiteToMove THEN "b" ELSE "w"

\* The destinations of a list of moves.
Ends(ms) == {<<ms[i].end_row, ms[i].end_col>> : i \in 1 .. Len(ms)}

\* Every move of the list starts on the probed square and carries the pieces
\* standing on its two squares, and no destination occurs twice.
WellFormed(ms) ==
    /\ Len(ms) = Cardinality(Ends(ms))
    /\ \A i \in 1 .. Len(ms) :
          /\ <<ms[i].start_row, ms[i].start_col>> = probe
          /\ <<ms[i].end_row, ms[i].end_col>> \in Squares
          /\ ms[i].piece_moved = At(board, probe[1], probe[2])
          /\ ms[i].piece_captured = At(board, ms[i].end_row, ms[i].end_col)

Step(sq, d, i) == <<sq[1] + i * d[1], sq[2] + i * d[2]>>

\* The squares a ray-cast from sq reaches: along each direction every square
\* up to the first occupied one, that one included when it holds an enemy.
RayCast(b, sq, dirs, own) ==
    {Step(sq, x[1], x[2]) :
        x \in {y \in dirs \X (1 .. 7) :
                  /\ Step(sq, y[1], y[2]) \in Squares
                  /\ Color(At(b, Step(sq, y[1], y[2])[1], Step(sq, y[1], y[2])[2])) # own
                  /\ \A j \in 1 .. (y[2] - 1) :
                        At(b, Step(sq, y[1], j)[1], Step(sq, y[1], j)[2]) = "--"}}

Orthogonals == {<<-1, 0>>, <<0, -1>>, <<0, 1>>, <<1, 0>>}

Diagonals == {<<-1, -1>>, <<-1, 1>>, <<1, -1>>, <<1, 1>>}

KnightOffsets ==
    {<<-2, -1>>, <<-2, 1>>, <<-1, -2>>, <<-1, 2>>,
     <<1, -2>>, <<1, 2>>, <<2, -1>>, <<2, 1>>}

\* C2: the rook's moves are exactly the ray-cast along the four orthogonal
\* directions: each ray ends on the first occupied square, which is a
\* destination only when it holds an enemy piece, and nothing beyond it is
\* generated.
C2_RookRaysStop ==
    GenDone =>
        /\ ~moves.raised
        /\ WellFormed(moves.moves)
        /\ Ends(moves.moves) = RayCast(board, probe, Orthogonals, Us)

\* C3: the knight's moves are exactly one move to each of the 8 offset squares
\* that is on the board and is empty or holds an enemy piece.
C3_KnightOffsets ==
    GenDone =>
        /\ ~moves.raised
        /\ WellFormed(moves.moves)
        /\ Ends(moves.moves) =
              {t \in Squares :
                  /\ \E o \in KnightOffsets : t = Step(probe, o, 1)
                  /\ Color(At(board, t[1], t[2])) # Us}

\* The row direction of the side to move's pawns, and their starting rank.
Forward == IF whiteToMove THEN -1 ELSE 1

StartRank == IF whiteToMove THEN 6 ELSE 1

C9_PawnCaptures ==
    GenDone =>
        \A ends \in {Ends(moves.moves)} :
            /\ \A side \in {-1, 1} :
                  \A t \in {<<probe[1] + Forward, probe[2] + side>>} :
                      t \in ends <=>
                          (t \in Squares /\ Color(At(board, t[1], t[2])) = Them)
            /\ \A t \in ends :
                  /\ t[2] # probe[2] => t[2] \in {probe[2] - 1, probe[2] + 1}
                  /\ t[2] = probe[2] => At(board, t[1], t[2]) = "--"

\* The same statement for the pawns whose forward row is on the board: there
\* the generator does what C9 says.
C9_OnBoardRows ==
    (GenDone /\ (probe[1] + Forward) \in Rows) => C9_PawnCaptures

\* C10: the bishop's moves are exactly the ray-cast along the four diagonals:
\* empty squares up to the first occupied square, that square included when
\* it holds an enemy piece, nothing behind it, nothing off the board.
C10_BishopRays ==
    GenDone =>
        /\ ~moves.raised
        /\ WellFormed(moves.moves)
        /\ Ends(moves.moves) = RayCast(board, probe, Diagonals, Us)

\* A bishop with an enemy piece on one diagonal that has a further square
\* behind it, and a piece of its own colour two or more steps away on a
\* diagonal.
C10_Witness ==
    /\ GenDone
    /\ \E d \in Diagonals, i \in 1 .. 6 :
          /\ Step(probe, d, i + 1) \in Squares
          /\ Color(At(board, Step(probe, d, i)[1], Step(probe, d, i)[2])) = Them
          /\ Step(probe, d, i) \in Ends(moves.moves)
    /\ \E d \in Diagonals, i \in 2 .. 7 :
          /\ Step(probe, d, i) \in Squares
          /\ Color(At(board, Step(probe, d, i)[1], Step(probe, d, i)[2])) = Us
          /\ Step(probe, d, i - 1) \in Ends(moves.moves)

\* The eight squares around sq, on the board or not.
Adjacent(sq) == {Step(sq, d, 1) : d \in Orthogonals \cup Diagonals}

\* Whether a knight standing on sq attacks t.
KnightAttacks(sq, t) == \E o \in KnightOffsets : t = Step(sq, o, 1)

\* C11: the king's moves are exactly one move to each of the 8 adjacent squares
\* that is on the board and does not hold a piece of the king's colour; a
\* square the opponent attacks is a destination like any other.
C11_KingMoves ==
    GenDone =>
        /\ ~moves.raised
        /\ WellFormed(moves.moves)
        /\ Ends(moves.moves) =
              {t \in Adjacent(probe) \cap Squares : Color(At(board, t[1], t[2])) # Us}

\* A king on the edge of the board beside a piece of its own colour, with an
\* enemy knight that attacks an empty adjacent square: the king gets a move
\* to the attacked square and none to its own piece.
C11_Witness ==
    /\ GenDone
    /\ Adjacent(probe) \ Squares # {}
    /\ \E t \in Adjacent(probe) \cap Squares :
          /\ Color(At(board, t[1], t[2])) = Us
          /\ t \notin Ends(moves.moves)
    /\ \E t \in Ends(moves.moves), e \in Squares :
          /\ At(board, t[1], t[2]) = "--"
          /\ Color(At(board, e[1], e[2])) = Them
          /\ KnightAttacks(e, t)

\* The coordinate quadruple of a move.
Quad(m) == <<m.start_row, m.start_col, m.end_row, m.end_col>>

\* C13: a Move with coordinates in 0..7, built on the initial or on the empty
\* board, equals another such Move, built from any squares of the initial
\* board, exactly when the two coordinate quadruples are equal: the packed key
\* separates different quadruples, and the pieces the moves carry play no
\* part.
C13_MoveEquality ==
    lastOp = "construct" =>
        \A m1 \in {moves.moves[1]} :
            /\ Quad(m1) \in Rows \X Rows \X Rows \X Rows
            /\ \A s2 \in Squares, e2 \in Squares :
                  \A m2 \in {Move(s2, e2, InitBoard)} :
                      /\ MoveEq(m1, m2) <=> Quad(m1) = Quad(m2)
                      /\ MoveEq(m2, m1) <=> MoveEq(m1, m2)

\* A white pawn's move onto the black queen's square: it equals the move
\* between the same squares of the empty board, which carries other pieces,
\* and differs from the move with rows and columns exchanged.
C13_Witness ==
    /\ lastOp = "construct"
    /\ \E m1 \in {moves.moves[1]} :
          /\ m1.piece_moved = "wp"
          /\ m1.piece_captured = "bQ"
          /\ \E m2 \in {Move(<<m1.start_row, m1.start_col>>,
                              <<m1.end_row, m1.end_col>>, EmptyBoard)} :
                m2.piece_moved # m1.piece_moved /\ MoveEq(m1, m2)
          /\ m1.start_row # m1.start_col
          /\ ~MoveEq(m1, Move(<<m1.start_col, m1.start_row>>,
                              <<m1.end_col, m1.end_row>>, board))

\* ---------------------------------------------- properties of the event loop

\* C16: every move the event loop passes to gs.make_move equals a move of
\* get_valid_moves() of the game state at the moment of the call: the cached
\* valid_moves is the list of that state.
C16_AppliedMoveIsValid ==
    [][lastOp' = "make_move" =>
        \E valid \in {get_valid_moves(board, whiteToMove)} :
            /\ ~valid.raised
            /\ MoveIn(Last(moveLog'), valid.moves)]_vars

====
